---- MODULE Spec2Model ----
(***************************************************************************)
(* Model of src/src/app.py: the Mergington High School activities API.     *)
(*                                                                         *)
(* The persistent store is the SQLite file dev.db with the two tables      *)
(* Activity and Participant.  A table is a sequence of rows in id order    *)
(* (the order a SELECT without ORDER BY returns them).  The file outlives  *)
(* the process: the rows it holds when the module is imported are an input *)
(* of the program.                                                         *)
(*                                                                         *)
(* An email is an opaque string that the code only compares for equality;  *)
(* email i stands for the i-th of NEmails distinct address strings.        *)
(***************************************************************************)
EXTENDS Integers, Sequences, FiniteSets, TLC

VARIABLES
    activity,     \* rows of table Activity
    participant,  \* rows of table Participant
    up,           \* the module has been imported (tables created, seeder run)
    last,         \* Spec: the last completed call and the response it produced
    prev,         \* Spec: the call completed before the last one
    req           \* SpecC: the requests in flight, by worker

vars == <<activity, participant, up, last, prev, req>>

----------------------------------------------------------------------------
(* Bounds *)

\* number of distinct email strings
NEmails == 11

\* Participant rows of "Chess Club" that dev.db may hold at import
MaxOtherRows == 1

\* concurrent workers of SpecC
NWorkers == 2

Emails == 1..NEmails
Workers == 1..NWorkers

\* the activity_name path parameters the requests use; "math club" matches no
\* row (SQLite compares VARCHAR with = byte for byte)
RequestNames == {"Chess Club", "Math Club", "math club"}

\* the email query parameters the requests use: one that dev.db may hold for
\* both activities, and the last two
RequestEmails == {1, NEmails - 1, NEmails}

----------------------------------------------------------------------------
(* Generic helpers *)

\* Result.first(): no row (the empty sequence) or the first row (a sequence
\* of length one)
first(rows) == IF rows = <<>> THEN <<>> ELSE <<rows[1]>>

RECURSIVE MaxId(_)
MaxId(rows) ==
    IF rows = <<>> THEN 0
    ELSE LET m == MaxId(Tail(rows)) IN IF Head(rows).id > m THEN Head(rows).id ELSE m

\* INTEGER PRIMARY KEY of a new row: one more than the largest id in use
NextId(rows) == MaxId(rows) + 1

----------------------------------------------------------------------------
(* Seeding *)

\* the list `initial` of seed_activities_if_empty
initial ==
    << [name |-> "Chess Club",
        description |-> "Learn strategies and compete in chess tournaments",
        schedule |-> "Fridays, 3:30 PM - 5:00 PM",
        max_participants |-> 12],
       [name |-> "Programming Class",
        description |-> "Learn programming fundamentals and build software projects",
        schedule |-> "Tuesdays and Thursdays, 3:30 PM - 4:30 PM",
        max_participants |-> 20],
       [name |-> "Gym Class",
        description |-> "Physical education and sports activities",
        schedule |-> "Mondays, Wednesdays, Fridays, 2:00 PM - 3:00 PM",
        max_participants |-> 30],
       [name |-> "Soccer Team",
        description |-> "Join the school soccer team and compete in matches",
        schedule |-> "Tuesdays and Thursdays, 4:00 PM - 5:30 PM",
        max_participants |-> 22],
       [name |-> "Basketball Team",
        description |-> "Practice and play basketball with the school team",
        schedule |-> "Wednesdays and Fridays, 3:30 PM - 5:00 PM",
        max_participants |-> 15],
       [name |-> "Art Club",
        description |-> "Explore your creativity through painting and drawing",
        schedule |-> "Thursdays, 3:30 PM - 5:00 PM",
        max_participants |-> 15],
       [name |-> "Drama Club",
        description |-> "Act, direct, and produce plays and performances",
        schedule |-> "Mondays and Wednesdays, 4:00 PM - 5:30 PM",
        max_participants |-> 20],
       [name |-> "Math Club",
        description |-> "Solve challenging problems and participate in math competitions",
        schedule |-> "Tuesdays, 3:30 PM - 4:30 PM",
        max_participants |-> 10],
       [name |-> "Debate Team",
        description |-> "Develop public speaking and argumentation skills",
        schedule |-> "Fridays, 4:00 PM - 5:30 PM",
        max_participants |-> 12] >>

\* session.add(Activity(**act)) for one entry of `initial`
AddActivity(rows, act) ==
    Append(rows, [id |-> NextId(rows),
                  name |-> act.name,
                  description |-> act.description,
                  schedule |-> act.schedule,
                  max_participants |-> act.max_participants])

RECURSIVE AddAll(_, _)
\* for act in initial: session.add(Activity(**act))
AddAll(rows, acts) ==
    IF acts = <<>> THEN rows ELSE AddAll(AddActivity(rows, Head(acts)), Tail(acts))

\* mutant: the seeder without its emptiness test
seed_always(rows) == AddAll(rows, initial)

\* seed_activities_if_empty: the Activity table it leaves
seed_activities_if_empty(rows) ==
    IF first(rows) = <<>> THEN AddAll(rows, initial) ELSE rows

\* the Activity table of a store seeded by an earlier run
Seeded == AddAll(<<>>, initial)

----------------------------------------------------------------------------
(* Queries *)

\* mutant: the lookup without its where clause
ActivityAny(rows, activity_name) == rows

\* select(Activity).where(Activity.name == activity_name)
ActivityByName(rows, activity_name) ==
    SelectSeq(rows, LAMBDA a : a.name = activity_name)

\* select(Participant).where(Participant.activity_id == id)
ParticipantsOf(rows, id) ==
    SelectSeq(rows, LAMBDA p : p.activity_id = id)

\* select(Participant).where(Participant.activity_id == id, Participant.email == email)
ParticipantOf(rows, id, email) ==
    SelectSeq(rows, LAMBDA p : p.activity_id = id /\ p.email = email)

\* session.exec(...) returns a ScalarResult; the class defines all, first,
\* one, one_or_none, fetchall, fetchmany, partitions and unique, and no
\* attribute named count, so evaluating `.count` raises AttributeError
ScalarResultHasCount == FALSE

\* [p.email for p in participants]
EmailsOf(rows) == [i \in 1..Len(rows) |-> rows[i].email]

----------------------------------------------------------------------------
(* Responses *)

Response(status, text) == [status |-> status, text |-> text]

NotFound == Response(404, "Activity not found")
Conflict == Response(400, "Student is already signed up")
CapacityExceeded == Response(400, "Activity is full")
NotRegistered == Response(400, "Student is not signed up for this activity")
\* an exception that is no HTTPException: the server answers 500
InternalServerError == Response(500, "Internal Server Error")
\* {"message": f"Signed up {email} for {activity_name}"}: email and
\* activity_name are the request's own parameters
SignedUp == Response(200, "Signed up")
\* {"message": f"Unregistered {email} from {activity_name}"}
Unregistered == Response(200, "Unregistered")
NoResponse == Response(0, "")

----------------------------------------------------------------------------
(* The handlers, statement by statement.  Each call runs in its own        *)
(* Session; no statement of a handler holds a lock across the next one, so *)
(* every statement reads the tables as committed at that moment.           *)

\* the local variables of one call: op is the handler, pc names the statement
\* to run next, activity / found / results are the handler's variables
\* `activity`, `participant` and `results`, body is the list `activities`
Idle ==
    [op |-> "none", pc |-> "idle", name |-> "", email |-> 0, activity |-> <<>>,
     found |-> <<>>, results |-> <<>>, body |-> <<>>, resp |-> NoResponse]

NewSignup(activity_name, email) ==
    [Idle EXCEPT !.op = "signup", !.pc = "lookup", !.name = activity_name,
                 !.email = email]

NewUnregister(activity_name, email) ==
    [Idle EXCEPT !.op = "unregister", !.pc = "lookup", !.name = activity_name,
                 !.email = email]

NewList == [Idle EXCEPT !.op = "list", !.pc = "select"]

Raise(st, resp) == [st EXCEPT !.pc = "done", !.resp = resp]

\* mutant: the handler without the duplicate check
signup_step_nodup(st, acts, parts) ==
    IF st.pc = "lookup" THEN
        LET a == first(ActivityByName(acts, st.name)) IN
        IF a = <<>> THEN [st |-> Raise(st, NotFound), participant |-> parts]
        ELSE [st |-> [st EXCEPT !.pc = "count", !.activity = a], participant |-> parts]
    ELSE [st |-> Raise(st, InternalServerError), participant |-> parts]

\* mutant: the handler without the count and the capacity check
signup_step_nocap(st, acts, parts) ==
    IF st.pc = "lookup" THEN
        LET a == first(ActivityByName(acts, st.name)) IN
        IF a = <<>> THEN [st |-> Raise(st, NotFound), participant |-> parts]
        ELSE [st |-> [st EXCEPT !.pc = "existing", !.activity = a], participant |-> parts]
    ELSE IF st.pc = "existing" THEN
        IF first(ParticipantOf(parts, st.activity[1].id, st.email)) # <<>>
        THEN [st |-> Raise(st, Conflict), participant |-> parts]
        ELSE [st |-> [st EXCEPT !.pc = "insert"], participant |-> parts]
    ELSE [st |-> Raise(st, SignedUp),
          participant |-> Append(parts, [id |-> NextId(parts), email |-> st.email,
                                         activity_id |-> st.activity[1].id])]

\* mutant: the handler without any check after the lookup
signup_step_unchecked(st, acts, parts) ==
    IF st.pc = "lookup" THEN
        LET a == first(ActivityByName(acts, st.name)) IN
        IF a = <<>> THEN [st |-> Raise(st, NotFound), participant |-> parts]
        ELSE [st |-> [st EXCEPT !.pc = "insert", !.activity = a], participant |-> parts]
    ELSE [st |-> Raise(st, SignedUp),
          participant |-> Append(parts, [id |-> NextId(parts), email |-> st.email,
                                         activity_id |-> st.activity[1].id])]

\* one statement of signup_for_activity on the committed tables: the local
\* state and the Participant table it leaves
signup_step(st, acts, parts) ==
    IF st.pc = "lookup" THEN
        \* activity = session.exec(select(Activity).where(...)).first()
        LET a == first(ActivityByName(acts, st.name)) IN
        IF a = <<>> THEN [st |-> Raise(st, NotFound), participant |-> parts]
        ELSE [st |-> [st EXCEPT !.pc = "existing", !.activity = a], participant |-> parts]
    ELSE IF st.pc = "existing" THEN
        \* existing = session.exec(select(Participant).where(...)).first()
        IF first(ParticipantOf(parts, st.activity[1].id, st.email)) # <<>>
        THEN [st |-> Raise(st, Conflict), participant |-> parts]
        ELSE [st |-> [st EXCEPT !.pc = "count"], participant |-> parts]
    ELSE IF st.pc = "count" THEN
        \* current_count = session.exec(select(Participant).where(...)).count()
        IF ~ScalarResultHasCount
        THEN [st |-> Raise(st, InternalServerError), participant |-> parts]
        ELSE LET current_count == Len(ParticipantsOf(parts, st.activity[1].id)) IN
             IF current_count >= st.activity[1].max_participants
             THEN [st |-> Raise(st, CapacityExceeded), participant |-> parts]
             ELSE [st |-> [st EXCEPT !.pc = "insert"], participant |-> parts]
    ELSE
        \* session.add(Participant(email=email, activity_id=activity.id)); commit
        [st |-> Raise(st, SignedUp),
         participant |-> Append(parts, [id |-> NextId(parts), email |-> st.email,
                                        activity_id |-> st.activity[1].id])]

\* session.delete(participant); session.commit(): DELETE ... WHERE id = ?.
\* A DELETE that matches no row (another call removed the row first) only
\* warns; the commit succeeds
DeleteRow(rows, id) == SelectSeq(rows, LAMBDA p : p.id # id)

\* one statement of unregister_from_activity on the committed tables
unregister_step(st, acts, parts) ==
    IF st.pc = "lookup" THEN
        \* activity = session.exec(select(Activity).where(...)).first()
        LET a == first(ActivityByName(acts, st.name)) IN
        IF a = <<>> THEN [st |-> Raise(st, NotFound), participant |-> parts]
        ELSE [st |-> [st EXCEPT !.pc = "find", !.activity = a], participant |-> parts]
    ELSE IF st.pc = "find" THEN
        \* participant = session.exec(select(Participant).where(...)).first()
        LET p == first(ParticipantOf(parts, st.activity[1].id, st.email)) IN
        IF p = <<>> THEN [st |-> Raise(st, NotRegistered), participant |-> parts]
        ELSE [st |-> [st EXCEPT !.pc = "delete", !.found = p], participant |-> parts]
    ELSE
        \* session.delete(participant); session.commit(); return {"message": ...}
        [st |-> Raise(st, Unregistered),
         participant |-> DeleteRow(parts, st.found[1].id)]

\* one statement of get_activities on the committed tables
get_activities_step(st, acts, parts) ==
    IF st.pc = "select" THEN
        \* activities = []; results = session.exec(select(Activity)).all()
        [st |-> IF acts = <<>>
                THEN [st EXCEPT !.pc = "done", !.resp = Response(200, "")]
                ELSE [st EXCEPT !.pc = "row", !.results = acts],
         participant |-> parts]
    ELSE
        \* one turn of `for a in results`: the participants query, then append
        LET a == st.results[Len(st.body) + 1]
            entry == [name |-> a.name,
                      description |-> a.description,
                      schedule |-> a.schedule,
                      max_participants |-> a.max_participants,
                      participants |-> EmailsOf(ParticipantsOf(parts, a.id))]
            body == Append(st.body, entry)
        IN  [st |-> IF Len(body) = Len(st.results)
                    THEN [st EXCEPT !.body = body, !.pc = "done",
                                    !.resp = Response(200, "")]
                    ELSE [st EXCEPT !.body = body],
             participant |-> parts]

\* the next statement of whichever handler the call runs
request_step(st, acts, parts) ==
    IF st.op = "signup" THEN signup_step(st, acts, parts)
    ELSE IF st.op = "unregister" THEN unregister_step(st, acts, parts)
    ELSE get_activities_step(st, acts, parts)

RECURSIVE Run(_, _, _)
\* the statements of one call run one after the other with no other call between
Run(st, acts, parts) ==
    IF st.pc = "done" THEN [resp |-> st.resp, body |-> st.body, participant |-> parts]
    ELSE LET n == request_step(st, acts, parts) IN Run(n.st, acts, n.participant)

\* signup_for_activity run to completion: its response and the Participant table
signup_for_activity(acts, parts, activity_name, email) ==
    LET r == Run(NewSignup(activity_name, email), acts, parts) IN
    [resp |-> r.resp, participant |-> r.participant]

\* mutant: the delete is never committed
unregister_nocommit(acts, parts, activity_name, email) ==
    LET a == first(ActivityByName(acts, activity_name)) IN
    IF a = <<>> THEN [resp |-> NotFound, participant |-> parts]
    ELSE IF first(ParticipantOf(parts, a[1].id, email)) = <<>>
         THEN [resp |-> NotRegistered, participant |-> parts]
         ELSE [resp |-> Unregistered, participant |-> parts]

\* unregister_from_activity run to completion
unregister_from_activity(acts, parts, activity_name, email) ==
    LET r == Run(NewUnregister(activity_name, email), acts, parts) IN
    [resp |-> r.resp, participant |-> r.participant]

\* get_activities run to completion: the JSON list it returns
get_activities(acts, parts) == Run(NewList, acts, parts).body

----------------------------------------------------------------------------
(* The store found in dev.db at import *)

\* n rows of the activity with the given id, for emails 1..n, with the
\* primary keys offset+1 .. offset+n
RowsOf(id, n, offset) ==
    [i \in 1..n |-> [id |-> offset + i, email |-> i, activity_id |-> id]]

Min(a, b) == IF a < b THEN a ELSE b

RowNamed(acts, activity_name) ==
    acts[CHOOSE i \in 1..Len(acts) : acts[i].name = activity_name]
IdOf(acts, activity_name) == RowNamed(acts, activity_name).id
CapacityOf(acts, activity_name) == RowNamed(acts, activity_name).max_participants

\* a file that does not exist yet (create_all makes two empty tables), or a
\* file left by earlier runs: the nine seeded activities, up to MaxOtherRows
\* participants of Chess Club and up to a full Math Club, every
\* (activity_id, email) pair at most once and no activity above its capacity
StoresAtImport ==
    { [activity |-> <<>>, participant |-> <<>>] }
    \cup
    { [activity |-> Seeded,
       participant |-> RowsOf(IdOf(Seeded, "Chess Club"), c, 0)
                       \o RowsOf(IdOf(Seeded, "Math Club"), k, c)] :
        c \in 0..MaxOtherRows,
        k \in 0..Min(CapacityOf(Seeded, "Math Club"), NEmails) }

----------------------------------------------------------------------------
(* The state machine: every request runs to completion before the next *)

Call(op, activity_name, email, resp, body) ==
    [op |-> op, name |-> activity_name, email |-> email,
     status |-> resp.status, text |-> resp.text, body |-> body]

\* a call without the body of its response
Brief(call) ==
    [op |-> call.op, name |-> call.name, email |-> call.email, status |-> call.status]

Init ==
    /\ \E s \in StoresAtImport :
          /\ activity = s.activity
          /\ participant = s.participant
    /\ up = FALSE
    /\ last = Call("none", "", 0, NoResponse, <<>>)
    /\ prev = Brief(Call("none", "", 0, NoResponse, <<>>))
    /\ req = [w \in Workers |-> Idle]

\* import of the module: create_all, then seed_activities_if_empty()
Import ==
    /\ ~up
    /\ up' = TRUE
    /\ activity' = seed_activities_if_empty(activity)
    /\ last' = Call("import", "", 0, NoResponse, <<>>)
    /\ prev' = Brief(last)
    /\ UNCHANGED <<participant, req>>

\* GET /activities
GetActivities ==
    /\ up
    /\ last' = Call("list", "", 0, Response(200, ""), get_activities(activity, participant))
    /\ prev' = Brief(last)
    /\ UNCHANGED <<activity, participant, up, req>>

\* POST /activities/{activity_name}/signup?email=...
Signup(activity_name, email) ==
    /\ up
    /\ LET r == signup_for_activity(activity, participant, activity_name, email) IN
          /\ participant' = r.participant
          /\ last' = Call("signup", activity_name, email, r.resp, <<>>)
    /\ prev' = Brief(last)
    /\ UNCHANGED <<activity, up, req>>

\* DELETE /activities/{activity_name}/unregister?email=...
Unregister(activity_name, email) ==
    /\ up
    /\ LET r == unregister_from_activity(activity, participant, activity_name, email) IN
          /\ participant' = r.participant
          /\ last' = Call("unregister", activity_name, email, r.resp, <<>>)
    /\ prev' = Brief(last)
    /\ UNCHANGED <<activity, up, req>>

Next ==
    \/ Import
    \/ GetActivities
    \/ \E n \in RequestNames, e \in RequestEmails : Signup(n, e)
    \/ \E n \in RequestNames, e \in RequestEmails : Unregister(n, e)

Spec == Init /\ [][Next]_vars

----------------------------------------------------------------------------
(* The state machine with requests in flight on several workers: FastAPI  *)
(* runs a plain `def` endpoint on a thread pool, so the statements of       *)
(* different calls interleave.                                              *)

\* POST .../signup arrives at an idle worker
BeginSignup(w, activity_name, email) ==
    /\ up
    /\ req[w].pc = "idle"
    /\ req' = [req EXCEPT ![w] = NewSignup(activity_name, email)]
    /\ UNCHANGED <<activity, participant, up, last, prev>>

\* DELETE .../unregister arrives at an idle worker
BeginUnregister(w, activity_name, email) ==
    /\ up
    /\ req[w].pc = "idle"
    /\ req' = [req EXCEPT ![w] = NewUnregister(activity_name, email)]
    /\ UNCHANGED <<activity, participant, up, last, prev>>

\* GET /activities arrives at an idle worker
BeginList(w) ==
    /\ up
    /\ req[w].pc = "idle"
    /\ req' = [req EXCEPT ![w] = NewList]
    /\ UNCHANGED <<activity, participant, up, last, prev>>

\* the worker runs the next statement of its call
Step(w) ==
    /\ req[w].pc \notin {"idle", "done"}
    /\ LET n == request_step(req[w], activity, participant) IN
          /\ req' = [req EXCEPT ![w] = n.st]
          /\ participant' = n.participant
    /\ UNCHANGED <<activity, up, last, prev>>

\* the response goes out and the worker is free again
Respond(w) ==
    /\ req[w].pc = "done"
    /\ req' = [req EXCEPT ![w] = Idle]
    /\ UNCHANGED <<activity, participant, up, last, prev>>

NextC ==
    \/ Import
    \/ \E w \in Workers, n \in RequestNames, e \in RequestEmails :
          BeginSignup(w, n, e)
    \/ \E w \in Workers, n \in RequestNames, e \in RequestEmails :
          BeginUnregister(w, n, e)
    \/ \E w \in Workers : BeginList(w)
    \/ \E w \in Workers : Step(w)
    \/ \E w \in Workers : Respond(w)

SpecC == Init /\ [][NextC]_vars

----------------------------------------------------------------------------
(* Vocabulary of the properties *)

\* some Activity row carries the name
Known(activity_name) ==
    \E i \in 1..Len(activity) : activity[i].name = activity_name

\* the Participant rows of table parts that belong to an activity of that name
RowsIn(parts, activity_name) ==
    { j \in 1..Len(parts) :
        \E i \in 1..Len(activity) :
            /\ activity[i].name = activity_name
            /\ parts[j].activity_id = activity[i].id }

RegisteredIn(parts, activity_name, email) ==
    \E j \in RowsIn(parts, activity_name) : parts[j].email = email

CountIn(parts, activity_name) == Cardinality(RowsIn(parts, activity_name))

\* the activity's participant count is below / has reached max_participants
HasRoom(activity_name) ==
    \A i \in 1..Len(activity) :
        activity[i].name = activity_name
            => CountIn(participant, activity_name) < activity[i].max_participants

IsFull(activity_name) ==
    \A i \in 1..Len(activity) :
        activity[i].name = activity_name
            => CountIn(participant, activity_name) = activity[i].max_participants

\* email is in the participants that GET /activities shows for the activity
Listed(parts, activity_name, email) ==
    LET shown == get_activities(activity, parts) IN
    \E i \in 1..Len(shown) :
        /\ shown[i].name = activity_name
        /\ \E k \in 1..Len(shown[i].participants) : shown[i].participants[k] = email

\* the step completes the call op(activity_name, email)
Completes(op, activity_name, email) ==
    /\ last'.op = op
    /\ last'.name = activity_name
    /\ last'.email = email

Answered(call, resp) == call.status = resp.status /\ call.text = resp.text

----------------------------------------------------------------------------
(* C1 .. C10 *)

\* C1: a signup of an email that is not registered for an existing activity
\* with room succeeds (200, confirmation) and the email is then in the
\* participants GET /activities lists for the activity.
C1_SignupRegisters ==
    [][\A n \in RequestNames, e \in RequestEmails :
          (/\ Completes("signup", n, e)
           /\ Known(n)
           /\ ~RegisteredIn(participant, n, e)
           /\ HasRoom(n))
          => (/\ Answered(last', SignedUp)
              /\ Listed(participant', n, e))]_vars

\* C2: a signup of an email already registered for the activity answers 400
\* "Student is already signed up" and leaves the Participant table as it was.
C2_DuplicateSignupConflict ==
    [][\A n \in RequestNames, e \in RequestEmails :
          (/\ Completes("signup", n, e)
           /\ Known(n)
           /\ RegisteredIn(participant, n, e))
          => (/\ Answered(last', Conflict)
              /\ participant' = participant
              /\ CountIn(participant', n) = CountIn(participant, n))]_vars

\* the second of two signups of one email has just been refused
C2_Witness ==
    /\ last.op = "signup"
    /\ Answered(last, Conflict)
    /\ RegisteredIn(participant, last.name, last.email)
    /\ prev.op = "signup"

\* C3: a signup of an unregistered email for an activity whose count equals
\* max_participants answers 400 "Activity is full" and creates no row.
C3_FullSignupRejected ==
    [][\A n \in RequestNames, e \in RequestEmails :
          (/\ Completes("signup", n, e)
           /\ Known(n)
           /\ IsFull(n)
           /\ ~RegisteredIn(participant, n, e))
          => (/\ Answered(last', CapacityExceeded)
              /\ participant' = participant)]_vars

\* C4: unregistering a registered email answers 200 and takes the email out
\* of the activity's participants; the same unregister repeated right after
\* it answers 400 "Student is not signed up for this activity" and changes
\* nothing.
C4_UnregisterThenNotRegistered ==
    [][\A n \in RequestNames, e \in RequestEmails :
          /\ (/\ Completes("unregister", n, e)
              /\ Known(n)
              /\ RegisteredIn(participant, n, e))
             => (/\ Answered(last', Unregistered)
                 /\ ~Listed(participant', n, e)
                 /\ CountIn(participant', n) = CountIn(participant, n) - 1
                 /\ Len(participant') = Len(participant) - 1)
          /\ (/\ Completes("unregister", n, e)
              /\ last.op = "unregister" /\ last.name = n /\ last.email = e
              /\ Answered(last, Unregistered))
             => (/\ Answered(last', NotRegistered)
                 /\ participant' = participant
                 /\ activity' = activity)]_vars

\* the same unregister twice in a row: the first answered 200, the second 400
C4_Witness ==
    /\ last.op = "unregister"
    /\ Answered(last, NotRegistered)
    /\ prev = [op |-> "unregister", name |-> last.name, email |-> last.email,
               status |-> 200]
    /\ ~RegisteredIn(participant, last.name, last.email)

\* C5: for a name no Activity row carries, signup and unregister both answer
\* 404 "Activity not found", whatever the tables hold, and change no row.
C5_UnknownActivityNotFound ==
    [][\A n \in RequestNames, e \in RequestEmails, op \in {"signup", "unregister"} :
          (/\ Completes(op, n, e)
           /\ ~Known(n))
          => (/\ Answered(last', NotFound)
              /\ participant' = participant
              /\ activity' = activity)]_vars

\* both calls were made for an unknown name on a store that holds participants
C5_Witness ==
    /\ last.op = "unregister"
    /\ prev.op = "signup"
    /\ prev.name = last.name
    /\ ~Known(last.name)
    /\ Answered(last, NotFound)
    /\ prev.status = 404
    /\ participant # <<>>

\* C6: with every request run to completion before the next, no activity
\* ever has more Participant rows than its max_participants.
C6_WithinCapacity ==
    \A i \in 1..Len(activity) :
        Cardinality({ j \in 1..Len(participant) :
                        participant[j].activity_id = activity[i].id })
            <= activity[i].max_participants

\* a signup of a new email has been tried on a full activity
C6_Witness ==
    /\ last.op = "signup"
    /\ Known(last.name)
    /\ IsFull(last.name)
    /\ ~RegisteredIn(participant, last.name, last.email)

\* C7: with every request run to completion before the next, no two
\* Participant rows share the pair (activity_id, email).
C7_NoDuplicatePair ==
    \A j, k \in 1..Len(participant) :
        (/\ participant[j].activity_id = participant[k].activity_id
         /\ participant[j].email = participant[k].email)
        => j = k

\* a signup of an email that is registered for the activity has been tried,
\* on a store that holds the email for another activity too
C7_Witness ==
    /\ last.op = "signup"
    /\ last.status # 404
    /\ RegisteredIn(participant, "Math Club", last.email)
    /\ RegisteredIn(participant, "Chess Club", last.email)

\* C8: no request creates, changes or deletes an Activity row; the only step
\* that writes the table is the seeder on an empty table, which inserts the
\* nine activities of `initial` with ids 1..9.
C8_ActivitiesFixed ==
    [][/\ activity # <<>> => activity' = activity
       /\ last'.op # "import" => activity' = activity
       /\ activity' # activity =>
             /\ Len(activity') = 9
             /\ \A i \in 1..9 :
                   activity'[i] =
                       [id |-> i,
                        name |-> initial[i].name,
                        description |-> initial[i].description,
                        schedule |-> initial[i].schedule,
                        max_participants |-> initial[i].max_participants]]_vars

\* the seeder has run on a table that was not empty, and requests of all three
\* kinds followed
C8_Witness ==
    /\ up
    /\ Len(activity) = 9
    /\ Len(participant) > MaxOtherRows
    /\ last.op = "list"
    /\ prev.op = "unregister"
    /\ prev.status = 200

\* both workers have run the statement that counts the participants, and
\* neither has committed
ChecksDone(w) ==
    \/ req[w].pc = "insert"
    \/ /\ req[w].pc = "done"
       /\ req[w].resp \in {CapacityExceeded, InternalServerError}

\* C9: two signups with different emails for one activity with exactly one
\* free place, both past the duplicate and capacity checks before either
\* commits, have both passed the capacity check (and both go on to insert).
C9_BothPassCapacityCheck ==
    \A v, w \in Workers :
        (/\ v # w
         /\ req[v].op = "signup" /\ req[w].op = "signup"
         /\ req[v].name = req[w].name
         /\ req[v].email # req[w].email
         /\ Known(req[v].name)
         /\ \A i \in 1..Len(activity) :
               activity[i].name = req[v].name
                   => CountIn(participant, req[v].name) = activity[i].max_participants - 1
         /\ ChecksDone(v)
         /\ ChecksDone(w))
        => (req[v].pc = "insert" /\ req[w].pc = "insert")

\* C10: signup tests in the order lookup, duplicate, capacity and reports the
\* first failure: on a full activity a registered email gets "Student is
\* already signed up" and an unregistered one "Activity is full"; an unknown
\* name gets "Activity not found".
C10_CheckOrder ==
    [][\A n \in RequestNames, e \in RequestEmails :
          Completes("signup", n, e) =>
             /\ ~Known(n) => Answered(last', NotFound)
             /\ (Known(n) /\ IsFull(n) /\ RegisteredIn(participant, n, e))
                   => Answered(last', Conflict)
             /\ (Known(n) /\ IsFull(n) /\ ~RegisteredIn(participant, n, e))
                   => Answered(last', CapacityExceeded)]_vars

====
